---- MODULE Spec2Model ----
(***************************************************************************)
(* A model of ppt2video.py: a sequential script that turns a PowerPoint   *)
(* presentation into a narrated video.  The script's globals are the      *)
(* state, each block of the script is one action, and the three external  *)
(* collaborators (PowerPoint, the speech service, ffmpeg) are modelled by  *)
(* what they leave behind: the text of a slide's notes, the outcome of a  *)
(* synthesis call, and the files written into the working directory.      *)
(* ffmpeg is taken to write the file it is asked for.                      *)
(***************************************************************************)
EXTENDS Integers, Sequences, FiniteSets, TLC

\* ---------------------------------------------------------------- bounds
MaxSlides == 3      \* presentations have 1..MaxSlides slides
MaxArgLen == 3      \* longest --slides string of a pipeline run
MaxSelLen == 4      \* longest --slides string given to the selector alone

\* ------------------------------------------------------------ characters
\* Strings the script inspects character by character are sequences of
\* one-character strings.
Digits == {"0", "1", "2", "3", "4", "5", "6", "7", "8", "9"}

DigitVal(c) ==
    CASE c = "0" -> 0 [] c = "1" -> 1 [] c = "2" -> 2 [] c = "3" -> 3
      [] c = "4" -> 4 [] c = "5" -> 5 [] c = "6" -> 6 [] c = "7" -> 7
      [] c = "8" -> 8 [] c = "9" -> 9

DigitChar(d) ==
    CASE d = 0 -> "0" [] d = 1 -> "1" [] d = 2 -> "2" [] d = 3 -> "3"
      [] d = 4 -> "4" [] d = 5 -> "5" [] d = 6 -> "6" [] d = 7 -> "7"
      [] d = 8 -> "8" [] d = 9 -> "9"

\* str.strip() and int() treat these as white space
IsSpace(c) == c \in {" ", "\n", "\r", "\t"}

RECURSIVE LStrip(_)
LStrip(s) == IF s # <<>> /\ IsSpace(Head(s)) THEN LStrip(Tail(s)) ELSE s

RECURSIVE RStrip(_)
RStrip(s) ==
    IF s # <<>> /\ IsSpace(s[Len(s)]) THEN RStrip(SubSeq(s, 1, Len(s) - 1)) ELSE s

\* str.strip()
Strip(s) == RStrip(LStrip(s))

\* str.split(sep) for a one-character separator: k separators give k+1 parts
RECURSIVE SplitFrom(_, _, _, _)
SplitFrom(s, sep, i, cur) ==
    IF i > Len(s) THEN <<cur>>
    ELSE IF s[i] = sep THEN <<cur>> \o SplitFrom(s, sep, i + 1, <<>>)
    ELSE SplitFrom(s, sep, i + 1, Append(cur, s[i]))

Split(s, sep) == SplitFrom(s, sep, 1, <<>>)

\* int(s) on the characters that can reach it here (digits and white space;
\* a sign cannot, the token was split on '-'): white space around the digits
\* is dropped, anything else raises ValueError.
RECURSIVE DigitsValue(_)
DigitsValue(t) ==
    IF t = <<>> THEN 0
    ELSE 10 * DigitsValue(SubSeq(t, 1, Len(t) - 1)) + DigitVal(t[Len(t)])

ParseInt(s) ==
    LET t == Strip(s) IN
    IF t = <<>> \/ \E i \in 1..Len(t) : t[i] \notin Digits
    THEN [ok |-> FALSE, val |-> 0]
    ELSE [ok |-> TRUE, val |-> DigitsValue(t)]

\* f"{n}" for a non-negative integer
RECURSIVE Decimal(_)
Decimal(n) ==
    IF n < 10 THEN <<DigitChar(n)>>
    ELSE Append(Decimal(n \div 10), DigitChar(n % 10))

\* ------------------------------------------------------- slide selection
\* list(range(a, b))
PyRange(a, b) == [k \in 1..(b - a) |-> a + k - 1]

\* range(int(start), int(end) + 1), a mutation of it with the end excluded
RangeListExclusive(start, end) == PyRange(start, end)

RangeList(start, end) == PyRange(start, end + 1)

\* sorted(list) on integers, by insertion from the back; a mutation that
\* leaves the list as parsed
RECURSIVE InsertSorted(_, _)
InsertSorted(x, s) ==
    IF s = <<>> \/ s[Len(s)] <= x THEN Append(s, x)
    ELSE Append(InsertSorted(x, SubSeq(s, 1, Len(s) - 1)), s[Len(s)])

RECURSIVE SortAsc(_)
SortAsc(s) ==
    IF s = <<>> THEN <<>>
    ELSE InsertSorted(s[Len(s)], SortAsc(SubSeq(s, 1, Len(s) - 1)))

Unsorted(s) == s

Sorted(s) == SortAsc(s)

\* One pass of "for i in slides": the indices of token i, or ValueError
TokenIndices(tok) ==
    IF \E k \in 1..Len(tok) : tok[k] = "-"
    THEN LET parts == Split(tok, "-") IN
         IF Len(parts) # 2 THEN [ok |-> FALSE, list |-> <<>>]
         ELSE LET a == ParseInt(parts[1])
                  b == ParseInt(parts[2])
              IN  IF a.ok /\ b.ok
                  THEN [ok |-> TRUE, list |-> RangeList(a.val, b.val)]
                  ELSE [ok |-> FALSE, list |-> <<>>]
    ELSE LET v == ParseInt(tok) IN
         IF v.ok THEN [ok |-> TRUE, list |-> <<v.val>>]
         ELSE [ok |-> FALSE, list |-> <<>>]

RECURSIVE ExtendAll(_, _)
ExtendAll(toks, acc) ==
    IF toks = <<>> THEN [ok |-> TRUE, list |-> acc]
    ELSE LET r == TokenIndices(Head(toks)) IN
         IF r.ok THEN ExtendAll(Tail(toks), acc \o r.list)
         ELSE [ok |-> FALSE, list |-> <<>>]

\* The whole of "Extract desired slide list": slides is the --slides value
\* ([given |-> FALSE] for None), count is presentation.Slides.Count
SlideList(slides, count) ==
    IF ~slides.given THEN [ok |-> TRUE, list |-> PyRange(1, count + 1)]
    ELSE LET toks == [k \in 1..Len(Split(slides.str, ",")) |->
                          Strip(Split(slides.str, ",")[k])]
             r == ExtendAll(toks, <<>>)
         IN  IF r.ok THEN [ok |-> TRUE, list |-> Sorted(r.list)] ELSE r

\* ------------------------------------------------------------ notes text
Lower(c) ==
    CASE c = "A" -> "a" [] c = "D" -> "d" [] c = "F" -> "f" [] OTHER -> c

Letters == {"a", "d", "e", "f", "A", "D", "F"}

\* \w of the regular expression
IsWordChar(c) == c \in Letters \cup Digits \cup {"_"}

\* "not slide_text or len(slide_text.strip()) == 0", and a mutation of it
\* that only tests for the empty string
IsBlankEmptyOnly(text) == text = <<>>

IsBlank(text) == text = <<>> \/ Len(Strip(text)) = 0

\* slide_text.replace('\n', ' ').replace('\r', ' ').strip()
Normalize(text) ==
    Strip([i \in 1..Len(text) |-> IF text[i] \in {"\n", "\r"} THEN " " ELSE text[i]])

\* \b at the gap before position p
WordAt(text, q) == q \in 1..Len(text) /\ IsWordChar(text[q])

Boundary(text, p) == WordAt(text, p - 1) # WordAt(text, p)

\* rf'\b{re.escape(word)}\b' matches at position i, ignoring case
MatchAt(text, word, i) ==
    /\ i + Len(word) - 1 <= Len(text)
    /\ \A k \in 1..Len(word) : Lower(text[i + k - 1]) = Lower(word[k])
    /\ Boundary(text, i)
    /\ Boundary(text, i + Len(word))

\* re.sub(pattern, pronunciation, text): left to right, non-overlapping
RECURSIVE SubFrom(_, _, _, _)
SubFrom(text, word, pron, i) ==
    IF i > Len(text) THEN <<>>
    ELSE IF MatchAt(text, word, i) THEN pron \o SubFrom(text, word, pron, i + Len(word))
    ELSE <<text[i]>> \o SubFrom(text, word, pron, i + 1)

\* "for word, pronunciation in pronunciation_mapping.items()", in file order
RECURSIVE ApplyMapping(_, _)
ApplyMapping(text, mapping) ==
    IF mapping = <<>> THEN text
    ELSE ApplyMapping(SubFrom(text, Head(mapping).word, Head(mapping).pron, 1),
                      Tail(mapping))

\* "total_chars += len(slide_text)", and a mutation that counts slides
AddCharsPerSlide(total, text) == total + 1

AddChars(total, text) == total + Len(text)

\* ------------------------------------------------------ working directory
\* A path is the folder under temp_dir, the fixed stem of the file name, the
\* slide number as the f-string prints it, and the extension.
ImagePathShared(n) == [folder |-> "slides", stem |-> "slide_", num |-> <<>>, ext |-> "png"]

ImagePath(n) == [folder |-> "slides", stem |-> "slide_", num |-> Decimal(n), ext |-> "png"]

AudioPath(n) == [folder |-> "audio", stem |-> "audio_", num |-> Decimal(n), ext |-> "wav"]

\* audio_file.replace('.wav', '.m4a')
PaddedPath(audio_file) == [audio_file EXCEPT !.ext = "m4a"]

VideoPath(n, container_format) ==
    [folder |-> "video", stem |-> "video_", num |-> Decimal(n), ext |-> container_format]

\* An empty directory is the function with no path in its domain.
EmptyDir == [p \in {} |-> 0]

\* os.remove
RemoveFile(dir, path) == [p \in (DOMAIN dir) \ {path} |-> dir[p]]

\* a tool writes a file, replacing what was there
WriteFile(dir, path, content) == (path :> content) @@ dir

\* "temp_dir = args.update if args.update else mkdtemp()": what is in the
\* directory the run works in; a mutation that always starts from a new one
WorkingDirFresh(update, dir) == EmptyDir

WorkingDir(update, dir) == IF update THEN dir ELSE EmptyDir

\* The attribute read at the quit check, and the one the parser defines
QuitAttrDefined == "quit_ppt"

QuitAttr == "quitppt"

\* ------------------------------------------------------------------ inputs
\* --slides strings are drawn over these characters: all of them for the
\* selector alone, no white space for a whole run of the pipeline
SelChars == {"1", "2", "3", ",", "-", " "}

ArgChars == {"1", "2", "3", ",", "-"}

RECURSIVE StringsUpTo(_, _)
StringsUpTo(chars, n) ==
    IF n = 0 THEN {<<>>}
    ELSE LET shorter == StringsUpTo(chars, n - 1) IN
         shorter \cup {Append(t, c) : t \in shorter, c \in chars}

NoSlides == [given |-> FALSE, str |-> <<>>]

SlidesArgs(chars, n) ==
    {NoSlides} \cup {[given |-> TRUE, str |-> t] : t \in StringsUpTo(chars, n)}

\* Notes texts a slide can carry: empty, white space only, text holding a
\* mapped word, text with line breaks and no whole mapped word
NotesTexts ==
    { <<>>,
      <<" ", "\n", " ">>,
      <<"F", "D", " ", "a">>,
      <<"a", "\r", "\n", "f", "d", "a", " ">> }

\* The pronunciation mapping file of the runs, as loaded (lower-cased): FD=eff
Mappings == { <<[word |-> <<"f", "d">>, pron |-> <<"e", "f", "f">>]>> }

Unread == <<"?">>

\* ------------------------------------------------------------------- state
VARIABLES
    args,                   \* the parsed command line (argparse.Namespace)
    pronunciation_mapping,  \* word -> pronunciation, in file order
    pc,                     \* the block of the script that runs next
    slide_count,            \* presentation.Slides.Count
    notes,                  \* notes text of each slide, once the run has read it
    presentation_open,      \* the presentation is open in PowerPoint
    ppt_running,            \* ppt.Quit() has not been called
    slide_list,
    idx,                    \* position of the for loop in slide_list
    slide_number,
    slide_text,
    slide_videos,
    total_chars,
    files,                  \* per-slide artifacts under temp_dir: path -> content
    silence_file,           \* silence.wav: the run that wrote it, "" if absent
    concat_file,            \* concat.txt: [exists, lines]
    concat_runs,            \* invocations of the final concatenating ffmpeg
    canceled,               \* the loop was left by the break
    exit_status,            \* -1 while running, then the process exit status
    error,                  \* the exception that ended the run, "" if none
    prior_files,            \* in update mode: files as the prior run left them
    prior_concat            \* in update mode: concat.txt as the prior run left it

vars == <<args, pronunciation_mapping, pc, slide_count, notes, presentation_open,
          ppt_running, slide_list, idx, slide_number, slide_text, slide_videos,
          total_chars, files, silence_file, concat_file, concat_runs, canceled,
          exit_status, error, prior_files, prior_concat>>

\* the name of this run in the content of the files it writes
RunName == IF args.update THEN "update" ELSE "fresh"

\* What a tool leaves at a per-slide path: the run that wrote it, the slide
\* it was made from, and whether that slide's notes held text at that time
Artifact(n) ==
    [run |-> RunName, slide |-> n, spoken |-> \E k \in 1..Len(notes[n]) : ~IsSpace(notes[n][k])]

NoManifest == [exists |-> FALSE, lines |-> <<>>]

InitWith(slidesArgs) ==
    /\ args \in [slides : slidesArgs, api : {"Azure", "SAPI"}, update : {FALSE},
                 output_ext : {"mp4"}, quit_ppt : BOOLEAN]
    /\ pronunciation_mapping \in Mappings
    /\ pc = "tempdir"
    /\ slide_count \in 1..MaxSlides
    /\ notes = [i \in 1..slide_count |-> Unread]
    /\ presentation_open = FALSE
    /\ ppt_running = TRUE
    /\ slide_list = <<>>
    /\ idx = 1
    /\ slide_number = 0
    /\ slide_text = <<>>
    /\ slide_videos = <<>>
    /\ total_chars = 0
    /\ files = EmptyDir
    /\ silence_file = ""
    /\ concat_file = NoManifest
    /\ concat_runs = 0
    /\ canceled = FALSE
    /\ exit_status = -1
    /\ error = ""
    /\ prior_files = EmptyDir
    /\ prior_concat = NoManifest

Init == InitWith(SlidesArgs(ArgChars, MaxArgLen))

\* an uncaught exception ends the process with status 1
Raise(name) ==
    /\ pc' = "exited"
    /\ exit_status' = 1
    /\ error' = name

\* lines 51-58: temp_dir, and its three folders when the run is fresh
CreateTempDirs ==
    /\ pc = "tempdir"
    /\ files' = WorkingDir(args.update, files)
    /\ pc' = "open"
    /\ UNCHANGED <<args, pronunciation_mapping, slide_count, notes, presentation_open,
                   ppt_running, slide_list, idx, slide_number, slide_text, slide_videos,
                   total_chars, silence_file, concat_file, concat_runs, canceled,
                   exit_status, error, prior_files, prior_concat>>

\* lines 60-62
OpenPresentation ==
    /\ pc = "open"
    /\ presentation_open' = TRUE
    /\ pc' = "extract"
    /\ UNCHANGED <<args, pronunciation_mapping, slide_count, notes, ppt_running,
                   slide_list, idx, slide_number, slide_text, slide_videos, total_chars,
                   files, silence_file, concat_file, concat_runs, canceled, exit_status,
                   error, prior_files, prior_concat>>

\* lines 64-76
ExtractSlideList ==
    /\ pc = "extract"
    /\ LET r == SlideList(args.slides, slide_count) IN
       IF r.ok
       THEN /\ slide_list' = r.list
            /\ pc' = "silence"
            /\ UNCHANGED <<exit_status, error>>
       ELSE /\ Raise("ValueError")
            /\ UNCHANGED slide_list
    /\ UNCHANGED <<args, pronunciation_mapping, slide_count, notes, presentation_open,
                   ppt_running, idx, slide_number, slide_text, slide_videos, total_chars,
                   files, silence_file, concat_file, concat_runs, canceled, prior_files,
                   prior_concat>>

\* lines 78-85
GenerateSilence ==
    /\ pc = "silence"
    /\ silence_file' = RunName
    /\ slide_videos' = <<>>
    /\ total_chars' = 0
    /\ idx' = 1
    /\ pc' = "loop"
    /\ UNCHANGED <<args, pronunciation_mapping, slide_count, notes, presentation_open,
                   ppt_running, slide_list, slide_number, slide_text, files, concat_file,
                   concat_runs, canceled, exit_status, error, prior_files, prior_concat>>

\* lines 88-90: the for statement takes the next index and fetches the slide;
\* PowerPoint raises on an index outside 1..Slides.Count
LoopNext ==
    /\ pc = "loop"
    /\ IF idx > Len(slide_list)
       THEN /\ pc' = "close"
            /\ UNCHANGED <<slide_number, exit_status, error>>
       ELSE /\ slide_number' = slide_list[idx]
            /\ IF slide_list[idx] \in 1..slide_count
               THEN /\ pc' = "read"
                    /\ UNCHANGED <<exit_status, error>>
               ELSE Raise("com_error")
    /\ UNCHANGED <<args, pronunciation_mapping, slide_count, notes, presentation_open,
                   ppt_running, slide_list, idx, slide_text, slide_videos, total_chars,
                   files, silence_file, concat_file, concat_runs, canceled, prior_files,
                   prior_concat>>

\* lines 92-105: the notes of a slide are fixed while the run has the
\* presentation open; the first read of a slide decides them
ReadNotes ==
    /\ pc = "read"
    /\ \E text \in NotesTexts :
        /\ notes[slide_number] \in {Unread, text}
        /\ notes' = [notes EXCEPT ![slide_number] = text]
        /\ IF IsBlank(text)
           THEN /\ idx' = idx + 1
                /\ pc' = "loop"
                /\ UNCHANGED <<slide_text, total_chars>>
           ELSE /\ slide_text' = ApplyMapping(Normalize(text), pronunciation_mapping)
                /\ total_chars' = AddChars(total_chars, slide_text')
                /\ pc' = "export"
                /\ UNCHANGED idx
    /\ UNCHANGED <<args, pronunciation_mapping, slide_count, presentation_open,
                   ppt_running, slide_list, slide_number, slide_videos, files,
                   silence_file, concat_file, concat_runs, canceled, exit_status, error,
                   prior_files, prior_concat>>

\* lines 107-112
ExportImage ==
    /\ pc = "export"
    /\ LET slide_image_file == ImagePath(slide_number) IN
       files' = WriteFile(IF slide_image_file \in DOMAIN files
                          THEN RemoveFile(files, slide_image_file) ELSE files,
                          slide_image_file, Artifact(slide_number))
    /\ pc' = "synth"
    /\ UNCHANGED <<args, pronunciation_mapping, slide_count, notes, presentation_open,
                   ppt_running, slide_list, idx, slide_number, slide_text, slide_videos,
                   total_chars, silence_file, concat_file, concat_runs, canceled,
                   exit_status, error, prior_files, prior_concat>>

\* lines 114-129: the Azure branch.  The result is completed or canceled (any
\* other reason falls through like completed); on cancellation the SDK may or
\* may not have created the output file.  Error details only change what is
\* printed.
SynthesizeAzure ==
    /\ pc = "synth"
    /\ args.api = "Azure"
    /\ \E reason \in {"SynthesizingAudioCompleted", "Canceled"}, created \in BOOLEAN :
        IF reason = "Canceled"
        THEN /\ files' = IF created
                         THEN WriteFile(files, AudioPath(slide_number), Artifact(slide_number))
                         ELSE files
             /\ canceled' = TRUE
             /\ pc' = "close"
        ELSE /\ created
             /\ files' = WriteFile(files, AudioPath(slide_number), Artifact(slide_number))
             /\ pc' = "pad"
             /\ UNCHANGED canceled
    /\ UNCHANGED <<args, pronunciation_mapping, slide_count, notes, presentation_open,
                   ppt_running, slide_list, idx, slide_number, slide_text, slide_videos,
                   total_chars, silence_file, concat_file, concat_runs, exit_status,
                   error, prior_files, prior_concat>>

\* lines 130-137: the SAPI branch
SynthesizeSAPI ==
    /\ pc = "synth"
    /\ args.api # "Azure"
    /\ files' = WriteFile(files, AudioPath(slide_number), Artifact(slide_number))
    /\ pc' = "pad"
    /\ UNCHANGED <<args, pronunciation_mapping, slide_count, notes, presentation_open,
                   ppt_running, slide_list, idx, slide_number, slide_text, slide_videos,
                   total_chars, silence_file, concat_file, concat_runs, canceled,
                   exit_status, error, prior_files, prior_concat>>

\* lines 139-141
PadAudio ==
    /\ pc = "pad"
    /\ files' = WriteFile(files, PaddedPath(AudioPath(slide_number)), Artifact(slide_number))
    /\ pc' = "clip"
    /\ UNCHANGED <<args, pronunciation_mapping, slide_count, notes, presentation_open,
                   ppt_running, slide_list, idx, slide_number, slide_text, slide_videos,
                   total_chars, silence_file, concat_file, concat_runs, canceled,
                   exit_status, error, prior_files, prior_concat>>

\* lines 143-148, and the end of the loop body
ComposeClip ==
    /\ pc = "clip"
    /\ LET video_file == VideoPath(slide_number, args.output_ext) IN
        /\ slide_videos' = Append(slide_videos, video_file)
        /\ files' = WriteFile(files, video_file, Artifact(slide_number))
    /\ idx' = idx + 1
    /\ pc' = "loop"
    /\ UNCHANGED <<args, pronunciation_mapping, slide_count, notes, presentation_open,
                   ppt_running, slide_list, slide_number, slide_text, total_chars,
                   silence_file, concat_file, concat_runs, canceled, exit_status, error,
                   prior_files, prior_concat>>

\* lines 150-151
ClosePresentation ==
    /\ pc = "close"
    /\ presentation_open' = FALSE
    /\ pc' = "quitcheck"
    /\ UNCHANGED <<args, pronunciation_mapping, slide_count, notes, ppt_running,
                   slide_list, idx, slide_number, slide_text, slide_videos, total_chars,
                   files, silence_file, concat_file, concat_runs, canceled, exit_status,
                   error, prior_files, prior_concat>>

\* lines 153-155: reading an attribute the namespace does not have raises
\* AttributeError; otherwise PowerPoint is quit when the flag is set and no
\* other presentation is open
QuitCheck ==
    /\ pc = "quitcheck"
    /\ IF QuitAttr \notin DOMAIN args
       THEN /\ Raise("AttributeError")
            /\ UNCHANGED ppt_running
       ELSE /\ \E others_open \in BOOLEAN :
                ppt_running' = ~(args[QuitAttr] /\ ~others_open)
            /\ pc' = "checkempty"
            /\ UNCHANGED <<exit_status, error>>
    /\ UNCHANGED <<args, pronunciation_mapping, slide_count, notes, presentation_open,
                   slide_list, idx, slide_number, slide_text, slide_videos, total_chars,
                   files, silence_file, concat_file, concat_runs, canceled, prior_files,
                   prior_concat>>

\* lines 157-159
CheckEmpty ==
    /\ pc = "checkempty"
    /\ IF Len(slide_videos) = 0
       THEN /\ pc' = "exited"
            /\ exit_status' = 0
       ELSE /\ pc' = "manifest"
            /\ UNCHANGED exit_status
    /\ UNCHANGED <<args, pronunciation_mapping, slide_count, notes, presentation_open,
                   ppt_running, slide_list, idx, slide_number, slide_text, slide_videos,
                   total_chars, files, silence_file, concat_file, concat_runs, canceled,
                   error, prior_files, prior_concat>>

\* lines 161-167: one "file '<path>'" line per recorded clip, fresh runs only
WriteManifest ==
    /\ pc = "manifest"
    /\ concat_file' = IF ~args.update
                      THEN [exists |-> TRUE, lines |-> slide_videos]
                      ELSE concat_file
    /\ pc' = "concat"
    /\ UNCHANGED <<args, pronunciation_mapping, slide_count, notes, presentation_open,
                   ppt_running, slide_list, idx, slide_number, slide_text, slide_videos,
                   total_chars, files, silence_file, concat_runs, canceled, exit_status,
                   error, prior_files, prior_concat>>

\* lines 169-174
FinalConcat ==
    /\ pc = "concat"
    /\ concat_runs' = concat_runs + 1
    /\ pc' = "exited"
    /\ exit_status' = 0
    /\ UNCHANGED <<args, pronunciation_mapping, slide_count, notes, presentation_open,
                   ppt_running, slide_list, idx, slide_number, slide_text, slide_videos,
                   total_chars, files, silence_file, concat_file, error, canceled,
                   prior_files, prior_concat>>

\* The script is started again with --update on the directory the fresh run
\* left behind.  The presentation may have been edited in between (its notes
\* are read anew); its slide count is the same, as --update requires.
StartUpdateRun ==
    /\ pc = "exited"
    /\ ~args.update
    /\ \E slides \in SlidesArgs(ArgChars, MaxArgLen), api \in {"Azure", "SAPI"} :
        args' = [args EXCEPT !.slides = slides, !.api = api, !.update = TRUE]
    /\ pc' = "tempdir"
    /\ notes' = [i \in 1..slide_count |-> Unread]
    /\ presentation_open' = FALSE
    /\ slide_list' = <<>>
    /\ idx' = 1
    /\ slide_number' = 0
    /\ slide_text' = <<>>
    /\ slide_videos' = <<>>
    /\ total_chars' = 0
    /\ concat_runs' = 0
    /\ canceled' = FALSE
    /\ exit_status' = -1
    /\ error' = ""
    /\ prior_files' = files
    /\ prior_concat' = concat_file
    /\ UNCHANGED <<pronunciation_mapping, slide_count, ppt_running, files, silence_file,
                   concat_file>>

\* The script as written: the blocks after the quit check are never reached
Next ==
    \/ CreateTempDirs
    \/ OpenPresentation
    \/ ExtractSlideList
    \/ GenerateSilence
    \/ LoopNext
    \/ ReadNotes
    \/ ExportImage
    \/ SynthesizeAzure
    \/ SynthesizeSAPI
    \/ PadAudio
    \/ ComposeClip
    \/ ClosePresentation
    \/ QuitCheck
    \/ StartUpdateRun

Spec == Init /\ [][Next]_vars

\* The blocks after the quit check, for a namespace that has the attribute
NextAll == Next \/ CheckEmpty \/ WriteManifest \/ FinalConcat

SpecAll == Init /\ [][NextAll]_vars

\* The selector alone: every --slides string up to MaxSelLen, and two longer
\* ones that mix single indices, ranges and a repeated index
SelExamples ==
    { <<"2", ",", "4", "-", "6", ",", "9">>,
      <<"3", ",", "1", "-", "2", ",", "1">> }

InitSel ==
    InitWith(SlidesArgs(SelChars, MaxSelLen)
             \cup {[given |-> TRUE, str |-> t] : t \in SelExamples})

NextSel == CreateTempDirs \/ OpenPresentation \/ ExtractSlideList

SpecSel == InitSel /\ [][NextSel]_vars

\* ------------------------------------------------------------- properties
WhitespaceOnly(text) == \A k \in 1..Len(text) : text[k] \in {" ", "\n", "\r", "\t"}

Elems(seq) == {seq[k] : k \in 1..Len(seq)}

Count(seq, v) == Cardinality({k \in 1..Len(seq) : seq[k] = v})

\* the slide a path is named after
KeyOf(p) == {n \in 1..slide_count : Decimal(n) = p.num}

\* the files this run has written for slide n
WrittenFor(n) == {p \in DOMAIN files : n \in KeyOf(p) /\ files[p].run = RunName}

\* the loop has been left, by exhaustion or by the break
LoopEnded == pc \in {"close", "quitcheck"} \/ (pc = "exited" /\ error = "AttributeError")

\* positions of slide_list the loop has been through
Done == 1..(IF canceled THEN idx ELSE idx - 1)

\* C1: a selected slide whose notes are empty or white space only gets no
\* image, no audio, no clip and no recorded clip path in this run, and the
\* step that skips it hands the loop on to the next index without an error.
C1_NothingForBlank ==
    \A n \in 1..slide_count :
        (notes[n] # Unread /\ WhitespaceOnly(notes[n])) =>
            /\ WrittenFor(n) = {}
            /\ \A k \in 1..Len(slide_videos) : slide_videos[k].num # Decimal(n)

C1_SkipStep ==
    (pc = "read" /\ WhitespaceOnly(notes'[slide_number])) =>
        /\ pc' = "loop"
        /\ idx' = idx + 1
        /\ UNCHANGED <<files, slide_videos, total_chars, exit_status, error, canceled>>

C1_BlankSlideSkipped == []C1_NothingForBlank /\ [][C1_SkipStep]_vars

C1_Witness ==
    \E k \in 1..Len(slide_list), j \in 1..Len(slide_list) :
        /\ k < j /\ j < idx
        /\ slide_list[k] \in 1..slide_count
        /\ notes[slide_list[k]] = <<" ", "\n", " ">>
        /\ \E v \in 1..Len(slide_videos) : slide_videos[v].num = Decimal(slide_list[j])

\* C2 (as claimed): after a cancellation the run ends in final assembly, not
\* in a crash: it exits with status 0, one clip path per slide completed
\* before the cancelled one, and the encoder run once if there is any clip.
C2_CancelThenAssembly ==
    (canceled /\ pc = "exited") =>
        /\ exit_status = 0
        /\ Len(slide_videos) =
               Cardinality({k \in 1..(idx - 1) : ~WhitespaceOnly(notes[slide_list[k]])})
        /\ concat_runs = (IF slide_videos = <<>> THEN 0 ELSE 1)

\* C3 (as claimed): a fresh run that recorded a clip ends with a manifest
\* listing exactly the recorded clip paths in order and one run of the
\* final encoder.
C3_ManifestListsClips ==
    (pc = "exited" /\ ~args.update /\ LoopEnded /\ slide_videos # <<>>) =>
        /\ concat_file = [exists |-> TRUE, lines |-> slide_videos]
        /\ concat_runs = 1

\* C4: in update mode every per-slide file of an index outside the selection
\* is there exactly as the prior run left it.
C4_OthersUntouched ==
    args.update =>
        \A p \in (DOMAIN files) \cup (DOMAIN prior_files) :
            (\A k \in 1..Len(slide_list) : p.num # Decimal(slide_list[k])) =>
                /\ p \in DOMAIN files
                /\ p \in DOMAIN prior_files
                /\ files[p] = prior_files[p]

C4_Witness ==
    /\ args.update
    /\ pc = "exited"
    /\ \E p \in DOMAIN files : files[p].run = "update" /\ files[p].slide = 3
    /\ \E p \in DOMAIN files :
        /\ p.ext = "mp4" /\ files[p].slide = 1
        /\ \A k \in 1..Len(slide_list) : slide_list[k] # 1

\* C5 (as claimed): an update run leaves the manifest as it was and still
\* runs the final encoder once it has regenerated a clip.
C5_UpdateReusesManifest ==
    args.update =>
        /\ concat_file = prior_concat
        /\ (pc = "exited" /\ LoopEnded /\ slide_videos # <<>>) => concat_runs = 1

\* C6 (as claimed): a run that recorded no clip exits with status 0, without
\* the manifest written or the final encoder run.
C6_NoClipsExitZero ==
    (pc = "exited" /\ LoopEnded /\ slide_videos = <<>>) =>
        /\ exit_status = 0
        /\ concat_file = prior_concat
        /\ concat_runs = 0

\* C7: the selector returns an ascending list; without --slides it is 1..N,
\* with --slides every value occurs as often as comma-separated tokens name
\* it, a token being one index or an inclusive range, whatever N is.
TokenStarts(s) == {0} \cup {i \in 1..Len(s) : s[i] = ","}

TokenAt(s, b) ==
    LET e == CHOOSE i \in (b + 1)..(Len(s) + 1) :
                 /\ (i = Len(s) + 1 \/ s[i] = ",")
                 /\ \A j \in (b + 1)..(i - 1) : s[j] # ","
    IN  SubSeq(s, b + 1, e - 1)

IsDigit(c) == c \in Digits

\* the number a token part spells: its digits, most significant first
RECURSIVE Number(_)
Number(t) ==
    IF t = <<>> THEN 0
    ELSE IF IsDigit(Head(t))
         THEN DigitVal(Head(t)) * (10 ^ (Len(SelectSeq(t, IsDigit)) - 1)) + Number(Tail(t))
    ELSE Number(Tail(t))

Named(tok) ==
    IF \E d \in 1..Len(tok) : tok[d] = "-"
    THEN LET d == CHOOSE d \in 1..Len(tok) : tok[d] = "-" IN
         Number(SubSeq(tok, 1, d - 1))..Number(SubSeq(tok, d + 1, Len(tok)))
    ELSE {Number(tok)}

C7_SelectorSortedMerge ==
    pc = "silence" =>
        /\ \A k \in 1..(Len(slide_list) - 1) : slide_list[k] <= slide_list[k + 1]
        /\ ~args.slides.given =>
               /\ Len(slide_list) = slide_count
               /\ \A k \in 1..slide_count : slide_list[k] = k
        /\ args.slides.given =>
               LET s == args.slides.str
                   values == Elems(slide_list)
                                 \cup UNION {Named(TokenAt(s, b)) : b \in TokenStarts(s)}
               IN  \A v \in values :
                       Count(slide_list, v) =
                           Cardinality({b \in TokenStarts(s) : v \in Named(TokenAt(s, b))})

C7_Witness ==
    /\ pc = "silence"
    /\ args.slides.str = <<"2", ",", "4", "-", "6", ",", "9">>
    /\ slide_list = <<2, 4, 5, 6, 9>>
    /\ slide_count < 4

\* C8: every per-slide file is named after exactly one slide, holds what was
\* made from that slide, and was made from notes that held text.
C8_KeyedByIndex ==
    \A p \in DOMAIN files :
        /\ Cardinality(KeyOf(p)) = 1
        /\ files[p].slide \in KeyOf(p)
        /\ files[p].spoken

C8_Witness ==
    /\ \E p \in DOMAIN files, q \in DOMAIN files :
        /\ p.ext = "png" /\ q.ext = "png"
        /\ files[p].slide = 1 /\ files[q].slide = 3
    /\ slide_count = 3
    /\ notes[2] # Unread /\ WhitespaceOnly(notes[2])
    /\ \A p \in DOMAIN files : files[p].slide # 2

\* C9: when the loop has ended, total_chars is the sum, over the slides the
\* loop went through and did not skip, of the length of the text after the
\* pronunciation substitution.
SpokenLen(n) ==
    IF WhitespaceOnly(notes[n]) THEN 0
    ELSE Len(ApplyMapping(Normalize(notes[n]), pronunciation_mapping))

RECURSIVE SumSpoken(_)
SumSpoken(k) == IF k = 0 THEN 0 ELSE SumSpoken(k - 1) + SpokenLen(slide_list[k])

C9_TotalChars ==
    LoopEnded => total_chars = SumSpoken(IF canceled THEN idx ELSE idx - 1)

C9_Witness ==
    /\ pc = "close"
    /\ ~canceled
    /\ \E k \in Done : WhitespaceOnly(notes[slide_list[k]])
    /\ \E k \in Done : notes[slide_list[k]] = <<"F", "D", " ", "a">>
    /\ \E k \in Done : notes[slide_list[k]] = <<"a", "\r", "\n", "f", "d", "a", " ">>
    /\ total_chars = 11

\* C10: once the loop has ended the run fails with AttributeError at the quit
\* check: after the presentation is closed, and with the empty-clips check,
\* the manifest write and the final concatenation never reached.
C10_Unreached ==
    /\ ~ENABLED (CheckEmpty \/ WriteManifest \/ FinalConcat)
    /\ exit_status # 0
    /\ (pc = "exited" /\ error = "AttributeError") =>
           /\ ~presentation_open
           /\ exit_status = 1
           /\ concat_file = NoManifest
           /\ concat_runs = 0
    /\ (pc = "exited" /\ error # "AttributeError") =>
           \/ error = "ValueError" /\ slide_list = <<>>
           \/ /\ error = "com_error"
              /\ idx <= Len(slide_list)
              /\ slide_list[idx] \notin 1..slide_count

C10_QuitStep ==
    /\ pc = "close" => pc' = "quitcheck" /\ ~presentation_open'
    /\ pc = "quitcheck" => pc' = "exited" /\ error' = "AttributeError"

C10_QuitCheckFails == []C10_Unreached /\ [][C10_QuitStep]_vars

C10_Witness ==
    /\ pc = "exited"
    /\ error = "AttributeError"
    /\ Len(slide_videos) >= 2
    /\ ~presentation_open

====
